---- MODULE Spec2Model ----
(***************************************************************************)
(* Model of the broker side of fix-engine (src/broker_engine.py):          *)
(* BrokerApplication, the QuickFIX application whose fromApp callback      *)
(* stores each NewOrderSingle in order_book, reports it New, sleeps one    *)
(* second and reports it Filled, and answers a message with a missing      *)
(* field by a BusinessMessageReject.                                       *)
(*                                                                         *)
(* Python values: None and an absent FIX field are the empty tuple <<>>,   *)
(* a present value v is <<v>>.  Quantities and prices are integers (the    *)
(* wire text is taken to be a well-formed decimal, float() gives its       *)
(* value).  The acceptor of main() is a fix.SocketAcceptor: one thread     *)
(* runs every session's callbacks, so a handler runs from its call to its  *)
(* return with nothing else of the application in between; the only point  *)
(* at which time passes inside it is time.sleep(1).                        *)
(***************************************************************************)
EXTENDS Integers, Sequences, FiniteSets, TLC

VARIABLES
    order_book,   \* self.order_book: dict ClOrdID -> order record
    session_id,   \* self.session_id: the session last passed to onCreate
    created,      \* the sessions the engine has created (onCreate was called)
    clock,        \* int(time.time()): the wall clock in whole seconds
    pc,           \* where the acceptor thread is: "idle" or "sleeping" (line 94)
    cur,          \* locals of the handler in flight while it sleeps
    outbox,       \* every message the application tried to send, in order
    received,     \* every message delivered to fromApp, in order
    sendFault     \* whether a send may raise in this run

vars == <<order_book, session_id, created, clock, pc, cur, outbox, received, sendFault>>

----------------------------------------------------------------------------
(* Bounds of the model *)

\* how many inbound application messages a run delivers
MaxMsgs == 2
\* the last second at which the idle engine still sees the clock advance
MaxClock == 2

----------------------------------------------------------------------------
(* Values *)

None == <<>>
Some(v) == <<v>>
Val(o) == o[1]

\* Python truthiness of an Optional[float]: None and 0.0 are falsy
Truthy(o) == o # None /\ Val(o) # 0

MsgType_NewOrderSingle == "D"
MsgType_OrderCancelRequest == "F"
MsgType_ExecutionReport == "8"
MsgType_BusinessMessageReject == "j"
OrdStatus_NEW == "0"
OrdStatus_FILLED == "2"
ExecType_NEW == "0"
ExecType_TRADE == "F"
Side_BUY == "1"
Side_SELL == "2"
OrdType_MARKET == "1"
OrdType_LIMIT == "2"
BusinessRejectReason_OTHER == "4"

Sessions == {"S1", "S2"}
Ids == {"ORDER_1", "ORDER_2"}

\* the body fields handle_new_order_single reads with getField, in the order
\* it reads them (Price is read only under isSetField)
RequiredFields == <<"ClOrdID", "Symbol", "Side", "OrdType", "OrderQty">>

\* the order the client sends on logon, with the id left open
sendNewOrder(id) ==
    [MsgType |-> MsgType_NewOrderSingle, ClOrdID |-> Some(id),
     Symbol |-> Some("COMPANY_SYMBOL"), Side |-> Some(Side_BUY),
     OrdType |-> Some(OrdType_LIMIT), Price |-> Some(150), OrderQty |-> Some(100)]

\* a market order without a price
MarketOrder(id) ==
    [MsgType |-> MsgType_NewOrderSingle, ClOrdID |-> Some(id),
     Symbol |-> Some("XYZ"), Side |-> Some(Side_SELL),
     OrdType |-> Some(OrdType_MARKET), Price |-> None, OrderQty |-> Some(50)]

\* the inbound messages of the model: the two orders under each id, the
\* client's order with one field removed or one number made non-positive,
\* and a message of another type
Messages ==
    {sendNewOrder(id) : id \in Ids} \cup {MarketOrder(id) : id \in Ids}
    \cup {[sendNewOrder("ORDER_1") EXCEPT ![f] = None] :
            f \in {"ClOrdID", "Symbol", "Side", "OrdType", "OrderQty", "Price"}}
    \cup {[sendNewOrder("ORDER_1") EXCEPT !.OrderQty = Some(q)] : q \in {0, -5}}
    \cup {[sendNewOrder("ORDER_1") EXCEPT !.Price = Some(0)]}
    \cup {[sendNewOrder("ORDER_1") EXCEPT !.MsgType = MsgType_OrderCancelRequest]}

----------------------------------------------------------------------------
(* handle_new_order_single: reading the fields *)

isSetField(m, f) == m[f] # None

\* getField raises FieldNotFound for an absent field; the handler reads the
\* required fields one after the other, all of them before it stores anything
MissingFields(m) == {i \in 1..Len(RequiredFields) : ~isSetField(m, RequiredFields[i])}

FieldNotFound(m) == MissingFields(m) # {}

\* str(e) of the exception: names the first field that was not found
FieldNotFoundText(m) ==
    RequiredFields[CHOOSE i \in MissingFields(m) : \A j \in MissingFields(m) : i <= j]

\* the record stored under order_book[cl_ord_id]
OrderRecord(m) ==
    [symbol |-> Val(m.Symbol), side |-> Val(m.Side), ord_type |-> Val(m.OrdType),
     price |-> IF isSetField(m, "Price") THEN m.Price ELSE None,
     order_qty |-> Val(m.OrderQty), status |-> "NEW"]

\* a store that rebinds the whole dict to the new entry
PutAlone(book, id, rec) == (id :> rec)

Put(book, id, rec) == (id :> rec) @@ book

----------------------------------------------------------------------------
(* send_execution_report and send_reject *)

\* f"{cl_ord_id}-{int(time.time())}": the id, a dash and the clock's digits.
\* The digits hold no dash, so the text splits back into the pair at its last
\* dash: two texts are equal exactly when the pairs are.
ExecID(cl_ord_id, now) == <<cl_ord_id, now>>

\* a report builder that reports the whole quantity filled in every report
CumQtyAlwaysFull(order_qty, ord_status) == order_qty

CumQty(order_qty, ord_status) == IF ord_status = OrdStatus_FILLED THEN order_qty ELSE 0

\* a report builder that leaves LeavesQty at the order quantity after the fill
LeavesQtyStale(order_qty, ord_status) == order_qty

LeavesQty(order_qty, ord_status) == IF ord_status = OrdStatus_FILLED THEN 0 ELSE order_qty

AvgPx(price) == IF Truthy(price) THEN Val(price) ELSE 0

\* the Price field is set only for a truthy price
PriceField(price) == IF Truthy(price) THEN price ELSE None

ExecutionReport(sessionID, cl_ord_id, symbol, side, order_qty, price, ord_status, exec_type, now) ==
    [MsgType |-> MsgType_ExecutionReport, session |-> sessionID,
     OrderID |-> cl_ord_id, ClOrdID |-> cl_ord_id,
     ExecID |-> ExecID(cl_ord_id, now),
     OrdStatus |-> ord_status, ExecType |-> exec_type,
     Symbol |-> symbol, Side |-> side, OrderQty |-> order_qty,
     CumQty |-> CumQty(order_qty, ord_status),
     AvgPx |-> AvgPx(price),
     LeavesQty |-> LeavesQty(order_qty, ord_status),
     Price |-> PriceField(price)]

\* a reject that reads MsgType from its own header instead of the message's
BusinessMessageRejectOwnType(sessionID, m, reason) ==
    [MsgType |-> MsgType_BusinessMessageReject, session |-> sessionID,
     RefMsgType |-> MsgType_BusinessMessageReject,
     BusinessRejectReason |-> BusinessRejectReason_OTHER,
     Text |-> reason]

\* a reject sent to the session onCreate stored, not the one passed in
BusinessMessageRejectToStored(sessionID, m, reason) ==
    [MsgType |-> MsgType_BusinessMessageReject, session |-> Val(session_id),
     RefMsgType |-> m.MsgType,
     BusinessRejectReason |-> BusinessRejectReason_OTHER,
     Text |-> reason]

BusinessMessageReject(sessionID, m, reason) ==
    [MsgType |-> MsgType_BusinessMessageReject, session |-> sessionID,
     RefMsgType |-> m.MsgType,
     BusinessRejectReason |-> BusinessRejectReason_OTHER,
     Text |-> reason]

\* what a send can do: go out, or (in a run with sendFault) raise inside the
\* try block, which logs the error and sends nothing
SendOutcomes == IF sendFault THEN {TRUE, FALSE} ELSE {TRUE}

\* one entry of outbox: the message, whether it went out, and the number of
\* the inbound message whose handler built it
Attempt(msg, ok, n) == [msg |-> msg, ok |-> ok, re |-> n]

----------------------------------------------------------------------------
(* The state machine *)

Init ==
    /\ order_book = <<>>
    /\ session_id = None
    /\ created = {}
    /\ clock = 0
    /\ pc = "idle"
    /\ cur = None
    /\ outbox = <<>>
    /\ received = <<>>
    /\ sendFault = FALSE

\* onCreate: records the session
onCreate(sessionID) ==
    /\ pc = "idle"
    /\ sessionID \notin created
    /\ created' = created \cup {sessionID}
    /\ session_id' = Some(sessionID)
    /\ UNCHANGED <<order_book, clock, pc, cur, outbox, received, sendFault>>

\* time passes while the acceptor thread waits for input
Tick ==
    /\ pc = "idle"
    /\ clock < MaxClock
    /\ clock' = clock + 1
    /\ UNCHANGED <<order_book, session_id, created, pc, cur, outbox, received, sendFault>>

\* process_message for a message that is no NewOrderSingle: nothing is called
Ignore(m, sessionID) ==
    /\ m.MsgType # MsgType_NewOrderSingle
    /\ received' = Append(received, [msg |-> m, session |-> sessionID, handler |-> None])
    /\ UNCHANGED <<order_book, session_id, created, clock, pc, cur, outbox, sendFault>>

\* an except branch that also marks the record stored under the id
RejectMarksRecord(m, sessionID) ==
    /\ m.MsgType = MsgType_NewOrderSingle
    /\ FieldNotFound(m)
    /\ received' = Append(received, [msg |-> m, session |-> sessionID,
                                     handler |-> Some("handle_new_order_single")])
    /\ \E ok \in SendOutcomes :
         outbox' = Append(outbox,
                     Attempt(BusinessMessageReject(sessionID, m, FieldNotFoundText(m)),
                             ok, Len(received) + 1))
    /\ order_book' =
          IF isSetField(m, "ClOrdID") /\ Val(m.ClOrdID) \in DOMAIN order_book
          THEN [order_book EXCEPT ![Val(m.ClOrdID)].status = "REJECTED"]
          ELSE order_book
    /\ UNCHANGED <<session_id, created, clock, pc, cur, sendFault>>

\* handle_new_order_single, a field is missing: the except branch, send_reject
Reject(m, sessionID) ==
    /\ m.MsgType = MsgType_NewOrderSingle
    /\ FieldNotFound(m)
    /\ received' = Append(received, [msg |-> m, session |-> sessionID,
                                     handler |-> Some("handle_new_order_single")])
    /\ \E ok \in SendOutcomes :
         outbox' = Append(outbox,
                     Attempt(BusinessMessageReject(sessionID, m, FieldNotFoundText(m)),
                             ok, Len(received) + 1))
    /\ UNCHANGED <<order_book, session_id, created, clock, pc, cur, sendFault>>

\* a handler out of which the failure of the New report's send propagates
AcceptPropagates(m, sessionID) ==
    /\ m.MsgType = MsgType_NewOrderSingle
    /\ ~FieldNotFound(m)
    /\ received' = Append(received, [msg |-> m, session |-> sessionID,
                                     handler |-> Some("handle_new_order_single")])
    /\ order_book' = Put(order_book, Val(m.ClOrdID), OrderRecord(m))
    /\ \E ok \in SendOutcomes :
         /\ outbox' = Append(outbox,
                     Attempt(ExecutionReport(sessionID, Val(m.ClOrdID), Val(m.Symbol),
                                 Val(m.Side), Val(m.OrderQty), OrderRecord(m).price,
                                 OrdStatus_NEW, ExecType_NEW, clock),
                             ok, Len(received) + 1))
         /\ cur' = IF ok
                   THEN Some([sessionID |-> sessionID, cl_ord_id |-> Val(m.ClOrdID),
                              symbol |-> Val(m.Symbol), side |-> Val(m.Side),
                              order_qty |-> Val(m.OrderQty), price |-> OrderRecord(m).price])
                   ELSE None
         /\ pc' = IF ok THEN "sleeping" ELSE "idle"
    /\ UNCHANGED <<session_id, created, clock, sendFault>>

\* handle_new_order_single up to time.sleep(1): store the order, report New
Accept(m, sessionID) ==
    /\ m.MsgType = MsgType_NewOrderSingle
    /\ ~FieldNotFound(m)
    /\ received' = Append(received, [msg |-> m, session |-> sessionID,
                                     handler |-> Some("handle_new_order_single")])
    /\ order_book' = Put(order_book, Val(m.ClOrdID), OrderRecord(m))
    /\ \E ok \in SendOutcomes :
         outbox' = Append(outbox,
                     Attempt(ExecutionReport(sessionID, Val(m.ClOrdID), Val(m.Symbol),
                                 Val(m.Side), Val(m.OrderQty), OrderRecord(m).price,
                                 OrdStatus_NEW, ExecType_NEW, clock),
                             ok, Len(received) + 1))
    /\ cur' = Some([sessionID |-> sessionID, cl_ord_id |-> Val(m.ClOrdID),
                    symbol |-> Val(m.Symbol), side |-> Val(m.Side),
                    order_qty |-> Val(m.OrderQty), price |-> OrderRecord(m).price])
    /\ pc' = "sleeping"
    /\ UNCHANGED <<session_id, created, clock, sendFault>>

\* a transport that calls fromApp on a thread per session, also while another
\* handler sleeps
fromAppThreaded(m, sessionID) ==
    /\ sessionID \in created
    /\ Len(received) < MaxMsgs
    /\ \/ Ignore(m, sessionID)
       \/ Reject(m, sessionID)
       \/ Accept(m, sessionID)

\* fromApp: the transport delivers a message of a created session while the
\* acceptor thread is free
fromApp(m, sessionID) ==
    /\ pc = "idle"
    /\ sessionID \in created
    /\ Len(received) < MaxMsgs
    /\ \/ Ignore(m, sessionID)
       \/ Reject(m, sessionID)
       \/ Accept(m, sessionID)

\* how much the clock's second count can grow over time.sleep(1)
SleepSeconds == {1, 2}

\* a handler that marks the order FILLED and returns without the report
FillSilent ==
    /\ pc = "sleeping"
    /\ \E d \in SleepSeconds : clock' = clock + d
    /\ order_book' = [order_book EXCEPT ![Val(cur).cl_ord_id].status = "FILLED"]
    /\ pc' = "idle"
    /\ cur' = None
    /\ UNCHANGED <<session_id, created, received, outbox, sendFault>>

\* handle_new_order_single from the return of time.sleep(1): mark the order
\* FILLED, report Filled, return to the transport
Fill ==
    /\ pc = "sleeping"
    /\ \E d \in SleepSeconds :
        /\ clock' = clock + d
        /\ LET c == Val(cur) IN
            /\ order_book' = [order_book EXCEPT ![c.cl_ord_id].status = "FILLED"]
            /\ \E ok \in SendOutcomes :
                 outbox' = Append(outbox,
                             Attempt(ExecutionReport(c.sessionID, c.cl_ord_id, c.symbol,
                                         c.side, c.order_qty, c.price,
                                         OrdStatus_FILLED, ExecType_TRADE, clock'),
                                     ok, Len(received)))
    /\ pc' = "idle"
    /\ cur' = None
    /\ UNCHANGED <<session_id, created, received, sendFault>>

Next ==
    \/ \E s \in Sessions : onCreate(s)
    \/ Tick
    \/ \E m \in Messages, s \in Sessions : fromApp(m, s)
    \/ Fill

Spec == Init /\ [][Next]_vars

\* the sleep returns: the thread is never suspended for ever
FairSpec == Spec /\ WF_vars(Fill)

\* a run in which a send may raise: the exception handlers of
\* send_execution_report and send_reject log it and return.  One session has
\* been created and delivers the messages; the clock moves only over the sleep.
InitFault ==
    /\ order_book = <<>>
    /\ session_id = Some("S1")
    /\ created = {"S1"}
    /\ clock = 0
    /\ pc = "idle"
    /\ cur = None
    /\ outbox = <<>>
    /\ received = <<>>
    /\ sendFault = TRUE

NextFault ==
    \/ \E m \in Messages, s \in Sessions : fromApp(m, s)
    \/ Fill

SpecFault == InitFault /\ [][NextFault]_vars

----------------------------------------------------------------------------
(* Vocabulary of the properties *)

IsReport(a) == a.msg.MsgType = MsgType_ExecutionReport
IsReject(a) == a.msg.MsgType = MsgType_BusinessMessageReject

\* the positions of outbox holding an execution report, a reject
ReportAt == {i \in 1..Len(outbox) : IsReport(outbox[i])}
RejectAt == {i \in 1..Len(outbox) : IsReject(outbox[i])}

\* the positions of outbox built by the handler of inbound message n
BuiltFor(n) == {i \in 1..Len(outbox) : outbox[i].re = n}

IsNewOrder(m) == m.MsgType = MsgType_NewOrderSingle

\* a new-order message without one of the five required fields
LacksRequiredField(m) ==
    \E f \in {"ClOrdID", "Symbol", "Side", "OrdType", "OrderQty"} : m[f] = None

\* a new-order message that passes the validation the specification asks for
ValidOrder(m) ==
    /\ IsNewOrder(m)
    /\ ~LacksRequiredField(m)
    /\ Val(m.OrderQty) > 0
    /\ m.OrdType = Some(OrdType_LIMIT) => (m.Price # None /\ Val(m.Price) > 0)

\* a step that delivers one more inbound message; Delivered is that message
Delivers == Len(received') = Len(received) + 1
Delivered == received'[Len(received')]

----------------------------------------------------------------------------
(* C1 *)

\* C1: in every execution report the broker builds, cum_qty + leaves_qty
\* equals order_qty, whatever the order's type, price or quantity.
C1_QuantitiesBalance ==
    \A i \in ReportAt :
        outbox[i].msg.CumQty + outbox[i].msg.LeavesQty = outbox[i].msg.OrderQty

\* a New report with everything left and a Filled report with nothing left,
\* for one order of 100
C1_Witness ==
    \E i, j \in ReportAt :
        /\ outbox[i].re = outbox[j].re
        /\ outbox[i].msg.OrdStatus = OrdStatus_NEW
        /\ outbox[i].msg.LeavesQty = 100 /\ outbox[i].msg.CumQty = 0
        /\ outbox[j].msg.OrdStatus = OrdStatus_FILLED
        /\ outbox[j].msg.LeavesQty = 0 /\ outbox[j].msg.CumQty = 100

----------------------------------------------------------------------------
(* C2 *)

\* C2: once the record stored under a client_order_id is FILLED, no step
\* changes its status or any other field of it.
C2_FilledRecordNeverChanges ==
    [][\A id \in DOMAIN order_book :
          order_book[id].status = "FILLED" =>
              (id \in DOMAIN order_book' /\ order_book'[id] = order_book[id])]_vars

----------------------------------------------------------------------------
(* C3 *)

\* the ord_status values of the reports sent for one client_order_id, in the
\* order they were sent
StatusesOf(id) ==
    LET own == SelectSeq(outbox, LAMBDA a : IsReport(a) /\ a.ok /\ a.msg.ClOrdID = id)
    IN  [i \in 1..Len(own) |-> own[i].msg.OrdStatus]

\* C3: the reports sent for a client_order_id are one New report followed by
\* one Filled report: no Filled before the New, nothing after the Filled
\* (and while no handler is in flight, the sequence is complete).
C3_OneNewThenOneFilled ==
    \A id \in Ids :
        /\ StatusesOf(id) \in {<<>>, <<OrdStatus_NEW>>, <<OrdStatus_NEW, OrdStatus_FILLED>>}
        /\ pc = "idle" => StatusesOf(id) # <<OrdStatus_NEW>>

----------------------------------------------------------------------------
(* C4 *)

\* C4: a new-order message that lacks a required field creates no order
\* record and is answered, in the step that handles it, by exactly one reject
\* whose ref_msg_type is the message's own type and whose reason is 'other';
\* no execution report is ever built for it.
C4_MissingFieldStep ==
    (Delivers /\ IsNewOrder(Delivered.msg) /\ LacksRequiredField(Delivered.msg)) =>
        /\ order_book' = order_book
        /\ pc' = "idle"
        /\ Len(outbox') = Len(outbox) + 1
        /\ SubSeq(outbox', 1, Len(outbox)) = outbox
        /\ IsReject(outbox'[Len(outbox')])
        /\ outbox'[Len(outbox')].msg.session = Delivered.session
        /\ outbox'[Len(outbox')].msg.RefMsgType = Delivered.msg.MsgType
        /\ outbox'[Len(outbox')].msg.BusinessRejectReason = BusinessRejectReason_OTHER

C4_MissingFieldOutcome ==
    \A n \in 1..Len(received) :
        (IsNewOrder(received[n].msg) /\ LacksRequiredField(received[n].msg)) =>
            /\ Cardinality(BuiltFor(n)) = 1
            /\ BuiltFor(n) \subseteq RejectAt
            /\ \A i \in BuiltFor(n) : outbox[i].msg.RefMsgType = MsgType_NewOrderSingle

\* C4: both halves: the step that handles a new-order message lacking a
\* required field stores nothing and sends one reject echoing the message's
\* type with reason 'other', and nothing else is ever built for that message.
C4_MissingFieldRejected == [][C4_MissingFieldStep]_vars /\ []C4_MissingFieldOutcome

\* the client's order without its order_qty was delivered and rejected, and
\* the store holds no record
C4_Witness ==
    \E n \in 1..Len(received) :
        /\ received[n].msg = [sendNewOrder("ORDER_1") EXCEPT !.OrderQty = None]
        /\ \E i \in BuiltFor(n) : IsReject(outbox[i]) /\ outbox[i].msg.Text = "OrderQty"
        /\ DOMAIN order_book = {}

----------------------------------------------------------------------------
(* C5 *)

\* C5: a new-order message whose order_qty is zero or negative is answered by
\* exactly one reject echoing its type and by no execution report, and every
\* record of the order store has order_qty > 0.
C5_NonPositiveQtyRejected ==
    /\ \A n \in 1..Len(received) :
          (IsNewOrder(received[n].msg) /\ ~LacksRequiredField(received[n].msg)
              /\ Val(received[n].msg.OrderQty) <= 0) =>
                /\ Cardinality(BuiltFor(n)) = 1
                /\ BuiltFor(n) \subseteq RejectAt
                /\ \A i \in BuiltFor(n) : outbox[i].msg.RefMsgType = MsgType_NewOrderSingle
    /\ \A id \in DOMAIN order_book : order_book[id].order_qty > 0

----------------------------------------------------------------------------
(* C6 *)

\* C6: a Limit order without a price, or with a non-positive one, is answered
\* by exactly one reject echoing its type and by no execution report, and
\* every stored Limit order has a positive price.
C6_LimitNeedsPositivePrice ==
    /\ \A n \in 1..Len(received) :
          (IsNewOrder(received[n].msg) /\ ~LacksRequiredField(received[n].msg)
              /\ received[n].msg.OrdType = Some(OrdType_LIMIT)
              /\ (received[n].msg.Price = None \/ Val(received[n].msg.Price) <= 0)) =>
                /\ Cardinality(BuiltFor(n)) = 1
                /\ BuiltFor(n) \subseteq RejectAt
                /\ \A i \in BuiltFor(n) : outbox[i].msg.RefMsgType = MsgType_NewOrderSingle
    /\ \A id \in DOMAIN order_book :
          order_book[id].ord_type = OrdType_LIMIT =>
              (order_book[id].price # None /\ Val(order_book[id].price) > 0)

----------------------------------------------------------------------------
(* C7 *)

\* C7: no two execution reports sent in one process lifetime share an exec_id.
C7_ExecIdUnique ==
    \A i, j \in ReportAt :
        (i # j /\ outbox[i].ok /\ outbox[j].ok) =>
            outbox[i].msg.ExecID # outbox[j].msg.ExecID

----------------------------------------------------------------------------
(* C8 *)

\* the engine takes up a message for another client_order_id
TakesUnrelatedMessage ==
    \E m \in Messages, s \in created :
        /\ IsNewOrder(m)
        /\ isSetField(m, "ClOrdID")
        /\ Val(m.ClOrdID) # Val(cur).cl_ord_id
        /\ fromApp(m, s)

\* C8: while an accepted order waits for its fill (status NEW, Filled report
\* not yet sent) and the transport has more to deliver, the engine can take up
\* a message for another client_order_id.
C8_FillWaitDoesNotBlock ==
    (pc = "sleeping" /\ Len(received) < MaxMsgs) => ENABLED TakesUnrelatedMessage

----------------------------------------------------------------------------
(* C9 *)

\* every message delivered so far is a valid order, no two under one id
AllValidAndDistinct ==
    /\ \A n \in 1..Len(received) : ValidOrder(received[n].msg)
    /\ \A n, k \in 1..Len(received) :
          n # k => received[n].msg.ClOrdID # received[k].msg.ClOrdID

\* the handler of inbound message n has not returned yet
InFlight(n) == pc = "sleeping" /\ n = Len(received)

\* C9: N valid orders under N distinct ids, from any sessions in any order,
\* leave exactly N records; each holds its own request's symbol, side, type,
\* price and quantity, is FILLED as soon as its handler has returned, and a
\* handler waiting for the fill can always go on to it.
C9_DistinctOrdersAllFilled ==
    AllValidAndDistinct =>
        /\ Cardinality(DOMAIN order_book) = Len(received)
        /\ \A n \in 1..Len(received) :
              LET m == received[n].msg IN
              /\ Val(m.ClOrdID) \in DOMAIN order_book
              /\ order_book[Val(m.ClOrdID)] =
                    [symbol |-> Val(m.Symbol), side |-> Val(m.Side),
                     ord_type |-> Val(m.OrdType), price |-> m.Price,
                     order_qty |-> Val(m.OrderQty),
                     status |-> IF InFlight(n) THEN "NEW" ELSE "FILLED"]
        /\ pc = "sleeping" => ENABLED Fill

\* two valid orders under two ids, from two sessions, both FILLED, the
\* records differing in every field of the request
C9_Witness ==
    /\ AllValidAndDistinct
    /\ Len(received) = 2
    /\ received[1].session # received[2].session
    /\ pc = "idle"
    /\ DOMAIN order_book = {"ORDER_1", "ORDER_2"}
    /\ order_book["ORDER_1"].status = "FILLED" /\ order_book["ORDER_2"].status = "FILLED"
    /\ order_book["ORDER_1"].symbol # order_book["ORDER_2"].symbol
    /\ order_book["ORDER_1"].order_qty # order_book["ORDER_2"].order_qty

----------------------------------------------------------------------------
(* C10 *)

\* C10: in the reports of a Market order accepted without a price, avg_px is
\* 0 only where no fill has occurred (cum_qty = 0); the Filled report carries
\* the price of the fill.
C10_MarketFillCarriesPrice ==
    \A i \in ReportAt :
        LET m == received[outbox[i].re].msg IN
        (m.OrdType = Some(OrdType_MARKET) /\ m.Price = None) =>
            (outbox[i].msg.AvgPx = 0 => outbox[i].msg.CumQty = 0)

----------------------------------------------------------------------------
(* C11 *)

\* C11: every execution report with cum_qty = 0, so every New report, has
\* avg_px = 0, whatever the order's limit price.
C11_NoFillNoAvgPx ==
    \A i \in ReportAt : outbox[i].msg.CumQty = 0 => outbox[i].msg.AvgPx = 0

----------------------------------------------------------------------------
(* C12 *)

\* what the handler of inbound message n built, in the order it built it
BuiltSeq(n) == SelectSeq(outbox, LAMBDA a : a.re = n)

\* C12: for a valid Limit order with price p and quantity q the first report
\* is New with cum_qty 0 and leaves_qty q, the second is Filled with cum_qty
\* q, leaves_qty 0 and avg_px p, there is no third, and both carry the
\* request's client_order_id, symbol, side and order_qty.
C12_LimitOrderReports ==
    \A n \in 1..Len(received) :
        LET m == received[n].msg
            built == BuiltSeq(n)
        IN  (ValidOrder(m) /\ m.OrdType = Some(OrdType_LIMIT)) =>
              /\ Len(built) = IF InFlight(n) THEN 1 ELSE 2
              /\ built[1].msg.OrdStatus = OrdStatus_NEW
              /\ built[1].msg.CumQty = 0
              /\ built[1].msg.LeavesQty = Val(m.OrderQty)
              /\ Len(built) = 2 =>
                    /\ built[2].msg.OrdStatus = OrdStatus_FILLED
                    /\ built[2].msg.CumQty = Val(m.OrderQty)
                    /\ built[2].msg.LeavesQty = 0
                    /\ built[2].msg.AvgPx = Val(m.Price)
              /\ \A k \in 1..Len(built) :
                    /\ IsReport(built[k])
                    /\ built[k].msg.ClOrdID = Val(m.ClOrdID)
                    /\ built[k].msg.Symbol = Val(m.Symbol)
                    /\ built[k].msg.Side = Val(m.Side)
                    /\ built[k].msg.OrderQty = Val(m.OrderQty)

\* the client's ORDER_1 (Limit, 150, 100) was handled to the end: New with
\* 0/100, then Filled with 100/0 at 150
C12_Witness ==
    /\ pc = "idle"
    /\ Len(received) >= 1
    /\ received[1].msg = sendNewOrder("ORDER_1")
    /\ Len(BuiltSeq(1)) = 2
    /\ BuiltSeq(1)[1].msg.OrdStatus = OrdStatus_NEW
    /\ BuiltSeq(1)[1].msg.LeavesQty = 100
    /\ BuiltSeq(1)[2].msg.OrdStatus = OrdStatus_FILLED
    /\ BuiltSeq(1)[2].msg.CumQty = 100
    /\ BuiltSeq(1)[2].msg.AvgPx = 150

----------------------------------------------------------------------------
(* C13 *)

\* C13: every inbound message whose type is not new-order is dispatched to
\* some handler (a default one, if no other).
C13_OtherTypesDispatched ==
    \A n \in 1..Len(received) :
        ~IsNewOrder(received[n].msg) => received[n].handler # None

----------------------------------------------------------------------------
(* C14 *)

\* C14: no execution report carries the client's id in its order_id field.
C14_OrderIdIsNotClientId ==
    \A i \in ReportAt : outbox[i].msg.OrderID # outbox[i].msg.ClOrdID

----------------------------------------------------------------------------
(* C15 *)

\* a step taken while a handler sits between its store of status NEW and its
\* write of status FILLED: no handler is entered for the same id, and the
\* record changes only by that handler's own write of FILLED
C15_Step ==
    pc = "sleeping" =>
        LET id == Val(cur).cl_ord_id IN
        /\ order_book[id].status = "NEW"
        /\ id \in DOMAIN order_book'
        /\ Delivers => Delivered.msg.ClOrdID # Some(id)
        /\ order_book'[id] # order_book[id] =>
              /\ order_book'[id] = [order_book[id] EXCEPT !.status = "FILLED"]
              /\ pc' = "idle"
              /\ ~Delivers

\* C15: at most one mutation of the record of a client_order_id is in flight:
\* between a handler's store of NEW and its write of FILLED no second handler
\* for that id, from any session, writes the record.
C15_OneWriterPerId == [][C15_Step]_vars

\* a second order under ORDER_1, from the other session, is in flight, after
\* the first one's record went from NEW to FILLED
C15_Witness ==
    /\ Len(received) = 2
    /\ received[1].msg.ClOrdID = Some("ORDER_1")
    /\ received[2].msg.ClOrdID = Some("ORDER_1")
    /\ received[1].session # received[2].session
    /\ ~LacksRequiredField(received[1].msg) /\ ~LacksRequiredField(received[2].msg)
    /\ IsNewOrder(received[1].msg) /\ IsNewOrder(received[2].msg)
    /\ pc = "sleeping"
    /\ order_book["ORDER_1"].status = "NEW"
    /\ \E i \in BuiltFor(1) : outbox[i].msg.OrdStatus = OrdStatus_FILLED

----------------------------------------------------------------------------
(* C16 *)

\* C16: every execution report and every reject built for an inbound message
\* is sent to the session on which that message arrived.
C16_RepliesGoToArrivalSession ==
    \A i \in 1..Len(outbox) :
        outbox[i].msg.session = received[outbox[i].re].session

\* with two sessions created, a report and a reject went to the session their
\* messages arrived on, which is not the one onCreate stored last
C16_Witness ==
    /\ created = Sessions
    /\ \E i \in ReportAt, j \in RejectAt :
          /\ outbox[i].msg.session # Val(session_id)
          /\ outbox[j].msg.session # Val(session_id)
          /\ outbox[i].msg.session = received[outbox[i].re].session
          /\ outbox[j].msg.session = received[outbox[j].re].session

----------------------------------------------------------------------------
(* C17 *)

\* the inbound messages that got as far as the store
StoredAt == {n \in 1..Len(received) :
                IsNewOrder(received[n].msg) /\ ~LacksRequiredField(received[n].msg)}

\* the session whose order the record under id is: the last to store there
Owner(id) ==
    LET ns == {n \in StoredAt : received[n].msg.ClOrdID = Some(id)}
    IN  received[CHOOSE n \in ns : \A k \in ns : k <= n].session

\* C17: a client_order_id is scoped to its session: a message arriving on one
\* session never replaces or alters the record of another session's order,
\* also when it carries the same client_order_id.
C17_IdsScopedToSession ==
    [][\A id \in DOMAIN order_book :
          (Delivers /\ Delivered.session # Owner(id)) =>
              (id \in DOMAIN order_book' /\ order_book'[id] = order_book[id])]_vars

----------------------------------------------------------------------------
(* C18 *)

----------------------------------------------------------------------------
(* C19 *)

\* C19: a new-order message rejected for a missing field leaves the whole
\* order store as it was, a record under the same client_order_id included.
C19_RejectLeavesStore ==
    [][(Delivers /\ IsNewOrder(Delivered.msg) /\ LacksRequiredField(Delivered.msg)) =>
          order_book' = order_book]_vars

\* ORDER_1 was filled, then the same order without its order_qty was
\* rejected, and the record of ORDER_1 is as the first order left it
C19_Witness ==
    /\ Len(received) = 2
    /\ received[1].msg = sendNewOrder("ORDER_1")
    /\ received[2].msg = [sendNewOrder("ORDER_1") EXCEPT !.OrderQty = None]
    /\ \E i \in BuiltFor(2) : IsReject(outbox[i])
    /\ order_book["ORDER_1"] =
          [symbol |-> "COMPANY_SYMBOL", side |-> Side_BUY, ord_type |-> OrdType_LIMIT,
           price |-> Some(150), order_qty |-> 100, status |-> "FILLED"]

----------------------------------------------------------------------------
(* C20 *)

\* the send of the New report of inbound message n failed
NewReportFailed(n) ==
    \E i \in BuiltFor(n) :
        IsReport(outbox[i]) /\ outbox[i].msg.OrdStatus = OrdStatus_NEW /\ ~outbox[i].ok

\* no later message stored a record under the id of message n
LastStoreOfItsId(n) ==
    \A k \in StoredAt : received[k].msg.ClOrdID = received[n].msg.ClOrdID => k <= n

\* C20: when the send of the New report fails, no reject is built for the
\* message, the handler goes on to the fill, and once it has returned the
\* Filled report was attempted and the stored status is FILLED.
C20_NewSendFailureSwallowed ==
    \A n \in StoredAt :
        NewReportFailed(n) =>
            /\ BuiltFor(n) \cap RejectAt = {}
            /\ InFlight(n) => ENABLED Fill
            /\ ~InFlight(n) =>
                  /\ \E j \in BuiltFor(n) :
                        IsReport(outbox[j]) /\ outbox[j].msg.OrdStatus = OrdStatus_FILLED
                  /\ LastStoreOfItsId(n) =>
                        order_book[Val(received[n].msg.ClOrdID)].status = "FILLED"

\* ORDER_1 is FILLED in the store, its Filled report went out, and no New
\* report for it was ever sent
C20_Witness ==
    /\ pc = "idle"
    /\ "ORDER_1" \in DOMAIN order_book
    /\ order_book["ORDER_1"].status = "FILLED"
    /\ \E i \in ReportAt :
          /\ outbox[i].msg.ClOrdID = "ORDER_1"
          /\ outbox[i].msg.OrdStatus = OrdStatus_FILLED
          /\ outbox[i].ok
    /\ \A i \in ReportAt :
          (outbox[i].msg.ClOrdID = "ORDER_1" /\ outbox[i].msg.OrdStatus = OrdStatus_NEW)
              => ~outbox[i].ok
    /\ RejectAt = {}

====
